---- MODULE Spec2Model ----
(***************************************************************************)
(* A model of the NIW endeavor document generator                          *)
(* (src/proposed_endeavour_agent/generate_niw.py and agent.py):            *)
(* the research/validation stage of orchestrate_endeavor_creation, the     *)
(* link checker check_link_status, section composition, the saving of the  *)
(* main document and the export of every exhibit through                   *)
(* browse_and_capture_as_pdf.                                               *)
(*                                                                         *)
(* Python strings are TLA+ strings; the f-strings, str.lower() and the     *)
(* substring test are computed character by character.  The third party    *)
(* calls (the agents' generate, requests.head, the selenium driver,        *)
(* the filesystem) are the environment: each call picks one of the         *)
(* outcomes the library can produce.                                       *)
(***************************************************************************)
EXTENDS Integers, Sequences, FiniteSets, TLC

VARIABLES
    pc,                     \* position of orchestrate_endeavor_creation
    source_urls,            \* what the researcher call and json.loads gave: [shape, items]
    i,                      \* the index of enumerate(source_urls)
    status,                 \* the last string check_link_status returned
    validated_sources,      \* list of [url, exhibit]
    responses,              \* what requests.head did for each candidate probed so far
    research_failed,        \* the except branch of the research stage was taken
    source_info_for_prompt, \* the exhibit lines given to the writer
    sec,                    \* the index of enumerate(sections)
    full_document_content,  \* the document body composed so far
    document,               \* what create_endeavor_document did
    exp,                    \* number of exhibits the export loop has finished
    archive_requests,       \* the calls of browse_and_capture_as_pdf: [url, exhibit]
    bpc,                    \* position of browse_and_capture_as_pdf
    driver,                 \* the driver of the current or last browse call
    quit_calls,             \* calls of driver.quit() in the current or last browse call
    ret,                    \* what the current or last browse call returns
    exception,              \* the call whose exception left orchestrate_endeavor_creation
    applicant_name,         \* the name the analyzer extracted from the CV
    main_folder_path,       \* os.path.join(os.getcwd(), sanitized_name)
    clock,                  \* datetime.now(), in seconds after midnight
    folders,                \* the directories the run has created
    files,                  \* the files the run has written
    doc_calls,              \* the calls of create_endeavor_document so far
    open_sessions,          \* browser sessions opened and not closed
    analysis_data,          \* what cv_analyzer_agent.generate and json.loads gave
    topics,                 \* analysis_data['topics']
    entry,                  \* the last line typed at the topic prompt, <<>> before the first
    chosen_index,           \* the index the selection loop holds
    chosen_topic,           \* topics[chosen_index]
    cwd                     \* os.getcwd()

research_vars == <<source_urls, i, status, validated_sources, responses, research_failed>>
compose_vars == <<source_info_for_prompt, sec, full_document_content>>
browse_vars == <<bpc, driver, quit_calls, ret>>
export_vars == <<exp, archive_requests>>
name_vars == <<applicant_name, main_folder_path, clock>>
disk_vars == <<folders, files>>
topic_vars == <<analysis_data, topics, entry, chosen_index, chosen_topic>>

vars == <<pc, research_vars, compose_vars, document, export_vars, browse_vars, exception,
          name_vars, disk_vars, doc_calls, open_sessions, topic_vars, cwd>>

----------------------------------------------------------------------------
(* Bounds of the model.                                                    *)

\* The longest candidate sequence the researcher returns.
MaxCands == 3

\* The longest topic list the analyzer returns.
MaxTopics == 3

\* The topics the analyzer proposes.
TopicNames == {"Clean energy", "Food safety"}

\* The working directories of a run.
WorkingDirs == {"/home/user", "/home/who?"}

\* Candidate URLs the researcher can propose.
URLS == {"https://a.gov", "https://b.edu"}

\* An item that is no URL: a key of a JSON object, a character of a JSON string.
NONURLS == {"h"}

\* The HTTP status codes check_link_status is applied to on its own.
MinStatusCode == 100
MaxStatusCode == 599

\* The texts of the request exceptions check_link_status is applied to.
ExceptionDetails == {"Read timed out", "No scheme supplied", "Connection refused"}

\* The longest candidate sequence of a run that probes only healthy links.
MaxLongCands == 27

\* The last second of the clock, and the calls of create_endeavor_document
\* made on its own.
MaxClock == 2
MaxDocCalls == 2

\* The names create_endeavor_document is called with on its own.
PersonNames == {"Jane Doe", "J: Doe"}

\* The HTTP status codes a probed server answers with in a pipeline run.
PipelineCodes == {200, 404}

----------------------------------------------------------------------------
(* Python string operations.                                               *)

UPPERCASE == "ABCDEFGHIJKLMNOPQRSTUVWXYZ"
LOWERCASE == "abcdefghijklmnopqrstuvwxyz"

CharAt(s, k) == SubSeq(s, k, k)

\* chr(n): a letter for the code points of A..Z and a..z, and the name
\* chr(<n>) for the character of any other code point.
Chr(n) ==
    IF n \in 65..90 THEN CharAt(UPPERCASE, n - 64)
    ELSE IF n \in 97..122 THEN CharAt(LOWERCASE, n - 96)
    ELSE "chr(" \o ToString(n) \o ")"

\* str.lower() of one character
LowerChar(c) ==
    IF \E k \in 1..26 : CharAt(UPPERCASE, k) = c
    THEN CharAt(LOWERCASE, CHOOSE k \in 1..26 : CharAt(UPPERCASE, k) = c)
    ELSE c

RECURSIVE Lower(_)
\* str.lower()
Lower(s) == IF s = "" THEN "" ELSE LowerChar(CharAt(s, 1)) \o Lower(SubSeq(s, 2, Len(s)))

\* str.upper() of one character
UpperChar(c) ==
    IF \E k \in 1..26 : CharAt(LOWERCASE, k) = c
    THEN CharAt(UPPERCASE, CHOOSE k \in 1..26 : CharAt(LOWERCASE, k) = c)
    ELSE c

RECURSIVE Upper(_)
\* str.upper()
Upper(s) == IF s = "" THEN "" ELSE UpperChar(CharAt(s, 1)) \o Upper(SubSeq(s, 2, Len(s)))

\* needle in hay
Contains(hay, needle) ==
    \E k \in 0..(Len(hay) - Len(needle)) : SubSeq(hay, k + 1, k + Len(needle)) = needle

RECURSIVE RemoveChars(_, _)
\* re.sub('[<chars>]', "", s)
RemoveChars(s, chars) ==
    IF s = "" THEN ""
    ELSE (IF \E k \in 1..Len(chars) : CharAt(chars, k) = CharAt(s, 1)
          THEN "" ELSE CharAt(s, 1))
            \o RemoveChars(SubSeq(s, 2, Len(s)), chars)

RECURSIVE ReplaceChar(_, _, _)
\* s.replace(old, new) for a one-character old
ReplaceChar(s, old, new) ==
    IF s = "" THEN ""
    ELSE (IF CharAt(s, 1) = old THEN new ELSE CharAt(s, 1))
            \o ReplaceChar(SubSeq(s, 2, Len(s)), old, new)

\* os.path.join(a, b) on POSIX
path_join(a, b) ==
    IF Len(b) > 0 /\ CharAt(b, 1) = "/" THEN b
    ELSE IF a = "" \/ CharAt(a, Len(a)) = "/" THEN a \o b
    ELSE a \o "/" \o b

\* The position of the last "/" of p, 0 if it has none.
LastSlash(p) ==
    LET at == {k \in 1..Len(p) : CharAt(p, k) = "/"} IN
    IF at = {} THEN 0 ELSE CHOOSE k \in at : \A j \in at : j <= k

RECURSIVE StripSlashes(_)
\* head.rstrip("/")
StripSlashes(s) ==
    IF s # "" /\ CharAt(s, Len(s)) = "/" THEN StripSlashes(SubSeq(s, 1, Len(s) - 1)) ELSE s

\* os.path.dirname(p) on POSIX: the part up to the last "/", without its
\* trailing slashes unless it consists of slashes only
dirname(p) ==
    LET head == SubSeq(p, 1, LastSlash(p)) IN
    IF StripSlashes(head) = "" THEN head ELSE StripSlashes(head)

\* "%02d" % n
Pad2(n) == IF n < 10 THEN "0" \o ToString(n) ELSE ToString(n)

\* now.strftime("%Y-%m-%d_%H-%M-%S") for a time of day in seconds; the run
\* is on one day.
strftime(now) ==
    "2025-01-01_" \o Pad2(now \div 3600) \o "-" \o Pad2((now \div 60) % 60)
        \o "-" \o Pad2(now % 60)

----------------------------------------------------------------------------
(* requests.head: the environment of check_link_status.                    *)

Response(code) == [kind |-> "response", status_code |-> code, detail |-> ""]
RequestException(d) == [kind |-> "RequestException", status_code |-> 0, detail |-> d]
\* An exception that is no requests.exceptions.RequestException.
OtherException == [kind |-> "Exception", status_code |-> 0, detail |-> "error"]

\* What requests.head(url, allow_redirects=True, timeout=10) can do.  An item
\* that is no URL has no scheme: requests raises MissingSchema, a
\* RequestException, before any network traffic.
requests_head(url, codes) ==
    IF url \in URLS
    THEN {Response(c) : c \in codes}
            \cup {RequestException("Read timed out"), OtherException}
    ELSE {RequestException("No scheme supplied")}

----------------------------------------------------------------------------
(* check_link_status                                                       *)

Returned(s) == [raised |-> FALSE, ret |-> s]
Raised == [raised |-> TRUE, ret |-> ""]

\* check_link_status with the comparison off by one
check_link_status_le400(out) ==
    IF out.kind = "response"
    THEN IF out.status_code <= 400
         THEN Returned("Link is valid. Status code: " \o ToString(out.status_code))
         ELSE Returned("Link is broken. Status code: " \o ToString(out.status_code))
    ELSE IF out.kind = "RequestException"
         THEN Returned("Error checking link: " \o out.detail
                        \o ". The URL may be invalid or the server is down.")
         ELSE Raised

check_link_status(out) ==
    IF out.kind = "response"
    THEN IF out.status_code < 400
         THEN Returned("Link is valid. Status code: " \o ToString(out.status_code))
         ELSE Returned("Link is broken. Status code: " \o ToString(out.status_code))
    ELSE IF out.kind = "RequestException"
         THEN Returned("Error checking link: " \o out.detail
                        \o ". The URL may be invalid or the server is down.")
         ELSE Raised

\* agent.py's definition of the same tool
check_link_status_agent(out) ==
    IF out.kind = "response"
    THEN IF out.status_code < 400
         THEN Returned("Link is valid. Status code: " \o ToString(out.status_code))
         ELSE Returned("Link is broken. Status code: " \o ToString(out.status_code))
    ELSE IF out.kind = "RequestException"
         THEN Returned("Error checking link: " \o out.detail
                        \o ". The URL may be invalid or the server is down.")
         ELSE Raised

----------------------------------------------------------------------------
(* orchestrate_endeavor_creation, step 3: research and validate sources.   *)

OrdB == 66

\* the label without the index of the candidate
exhibit_label_no_index(n) == "Exhibit 1" \o Chr(OrdB)

\* f"Exhibit 1{chr(ord('B') + i)}"
exhibit_label(n) == "Exhibit 1" \o Chr(OrdB + n)

\* the test of line 238 inverted
is_valid_inverted(s) == ~Contains(Lower(s), "valid")

\* if "valid" in status.lower()
is_valid(s) == Contains(Lower(s), "valid")

Items(dom) == UNION {[1..n -> dom] : n \in 0..MaxCands}

\* The keys of a dict in their order: no key twice.
Keys(dom) == {s \in Items(dom) : \A j, k \in 1..Len(s) : s[j] = s[k] => j = k}

\* What research_agent.generate followed by json.loads can give: generate
\* raises, the text is no JSON, or the text is JSON of some shape.
\* enumerate() of a list gives its elements, of an object its keys, of a
\* string its characters; a number, a boolean or null is not iterable.
ResearcherOutputs ==
    {[shape |-> "raise", items |-> <<>>], [shape |-> "notjson", items |-> <<>>],
     [shape |-> "scalar", items |-> <<>>]}
    \cup {[shape |-> "list", items |-> s] : s \in Items(URLS)}
    \cup {[shape |-> "object", items |-> s] : s \in Keys(URLS \cup NONURLS)}
    \cup {[shape |-> "string", items |-> s] : s \in Items(NONURLS)}

Iterable(shape) == shape \in {"list", "object", "string"}

Unset == [shape |-> "unset", items |-> <<>>]

\* os.getcwd() of a run started in the home directory
getcwd == "/home/user"

\* The state of the variables of steps 1 and 2 before step 1.
NoTopic ==
    /\ analysis_data = [kind |-> "unset", keys |-> {}, full_name |-> "", topics |-> <<>>,
                        topics_is_list |-> TRUE]
    /\ topics = <<>>
    /\ entry = <<>>
    /\ chosen_index = -1
    /\ chosen_topic = ""

\* The state of the variables of steps 1 and 2 after step 2, the first of
\* two topics chosen.
TopicSelected ==
    /\ analysis_data = [kind |-> "object", keys |-> {"full_name", "topics"},
                        full_name |-> "Jane Doe",
                        topics |-> <<"Clean energy", "Food safety">>,
                        topics_is_list |-> TRUE]
    /\ topics = <<"Clean energy", "Food safety">>
    /\ entry = <<"1">>
    /\ chosen_index = 0
    /\ chosen_topic = "Clean energy"

\* The state of the variables of steps 4 to 6 before step 3.
NothingSaved ==
    /\ source_info_for_prompt = ""
    /\ sec = 0
    /\ full_document_content = ""
    /\ document = "none"
    /\ exp = 0
    /\ archive_requests = <<>>
    /\ bpc = "idle"
    /\ driver = "None"
    /\ quit_calls = 0
    /\ ret = "none"
    /\ exception = "none"
    /\ main_folder_path = ""
    /\ clock = 0
    /\ folders = {}
    /\ files = {}
    /\ doc_calls = <<>>
    /\ open_sessions = 0

\* the state at step 3 with the exhibit list of an earlier run left in place
Init_LeftoverSources ==
    /\ pc = "research"
    /\ source_urls = Unset
    /\ i = 0
    /\ status = ""
    /\ validated_sources = <<[url |-> "https://a.gov", exhibit |-> "Exhibit 1B"]>>
    /\ responses = <<>>
    /\ research_failed = FALSE
    /\ applicant_name = "Jane Doe"
    /\ NothingSaved
    /\ TopicSelected
    /\ cwd = getcwd

Init ==
    /\ pc = "research"
    /\ source_urls = Unset
    /\ i = 0
    /\ status = ""
    /\ validated_sources = <<>>
    /\ responses = <<>>
    /\ research_failed = FALSE
    /\ applicant_name = "Jane Doe"
    /\ NothingSaved
    /\ TopicSelected
    /\ cwd = getcwd

\* lines 232-236 called again when the research stage gave no source
Research_Again ==
    /\ \/ pc = "research"
       \/ pc = "sections" /\ validated_sources = <<>>
    /\ \E r \in ResearcherOutputs :
        /\ source_urls' = r
        /\ pc' = IF Iterable(r.shape) /\ Len(r.items) > 0 THEN "validate" ELSE "sections"
        /\ research_failed' = ~Iterable(r.shape)
    /\ i' = 0
    /\ UNCHANGED <<status, validated_sources, responses>>
    /\ UNCHANGED <<compose_vars, document, export_vars, browse_vars, exception>>
    /\ UNCHANGED <<name_vars, disk_vars, doc_calls, open_sessions>>
    /\ UNCHANGED <<topic_vars, cwd>>

\* lines 232-236: the researcher call, json.loads and the start of the loop.
\* An exception (generate raising, JSONDecodeError, TypeError of enumerate)
\* is caught at line 244 and the run goes on with the sources accepted so far.
Research ==
    /\ pc = "research"
    /\ \E r \in ResearcherOutputs :
        /\ source_urls' = r
        /\ pc' = IF Iterable(r.shape) /\ Len(r.items) > 0 THEN "validate" ELSE "sections"
        /\ research_failed' = ~Iterable(r.shape)
    /\ UNCHANGED <<i, status, validated_sources, responses>>
    /\ UNCHANGED <<compose_vars, document, export_vars, browse_vars, exception>>
    /\ UNCHANGED <<name_vars, disk_vars, doc_calls, open_sessions>>
    /\ UNCHANGED <<topic_vars, cwd>>

\* lines 236-243: one iteration of the validation loop, the probed servers
\* answering with one of codes and requests.head ending in one of kinds
ValidateStep(codes, kinds) ==
    /\ pc = "validate"
    /\ i < Len(source_urls.items)
    /\ LET url == source_urls.items[i + 1] IN
       \E out \in {o \in requests_head(url, codes) : o.kind \in kinds} :
         LET r == check_link_status(out) IN
         /\ responses' = Append(responses, out)
         /\ IF r.raised
            THEN /\ pc' = "sections"
                 /\ research_failed' = TRUE
                 /\ UNCHANGED <<i, status, validated_sources>>
            ELSE /\ status' = r.ret
                 /\ validated_sources' =
                        IF is_valid(r.ret)
                        THEN Append(validated_sources,
                                    [url |-> url, exhibit |-> exhibit_label(i)])
                        ELSE validated_sources
                 /\ i' = i + 1
                 /\ pc' = IF i + 1 = Len(source_urls.items) THEN "sections" ELSE "validate"
                 /\ UNCHANGED research_failed
    /\ UNCHANGED source_urls
    /\ UNCHANGED <<compose_vars, document, export_vars, browse_vars, exception>>
    /\ UNCHANGED <<name_vars, disk_vars, doc_calls, open_sessions>>
    /\ UNCHANGED <<topic_vars, cwd>>

\* lines 236-243: one iteration of the validation loop
Validate == ValidateStep(PipelineCodes, {"response", "RequestException", "Exception"})

----------------------------------------------------------------------------
(* orchestrate_endeavor_creation, step 4: the document, section by section *)

sections == <<"Introduction and Overview", "Substantial Merit", "National Importance",
              "Phased Implementation Plan", "Projected Economic Impact and Job Creation",
              "Broader Impacts and Conclusion">>

\* The texts writer_agent.generate returns.
WriterTexts == {"text"}

\* The texts writer_agent.generate returns, the empty text among them.
AllWriterTexts == {"", "text"}

RECURSIVE JoinLines(_)
\* "\n".join(lines)
JoinLines(lines) ==
    IF Len(lines) = 0 THEN ""
    ELSE IF Len(lines) = 1 THEN lines[1]
    ELSE lines[1] \o "\n" \o JoinLines(Tail(lines))

\* lines 248-261 with the source lines made from every candidate
BeginCompose_AllCandidates ==
    /\ pc = "sections"
    /\ full_document_content' = ""
    /\ source_info_for_prompt' =
           JoinLines([k \in 1..Len(source_urls.items) |->
                        exhibit_label(k - 1) \o ": " \o source_urls.items[k]])
    /\ sec' = 0
    /\ pc' = "compose"
    /\ UNCHANGED <<research_vars, document, export_vars, browse_vars, exception>>
    /\ UNCHANGED <<name_vars, disk_vars, doc_calls, open_sessions>>
    /\ UNCHANGED <<topic_vars, cwd>>

\* lines 248-261: the section list, the empty body and the source lines
BeginCompose ==
    /\ pc = "sections"
    /\ full_document_content' = ""
    /\ source_info_for_prompt' =
           JoinLines([k \in 1..Len(validated_sources) |->
                        validated_sources[k].exhibit \o ": " \o validated_sources[k].url])
    /\ sec' = 0
    /\ pc' = "compose"
    /\ UNCHANGED <<research_vars, document, export_vars, browse_vars, exception>>
    /\ UNCHANGED <<name_vars, disk_vars, doc_calls, open_sessions>>
    /\ UNCHANGED <<topic_vars, cwd>>

\* lines 263-272 with the section text put before the body composed so far
ComposeWith_Prepend(texts) ==
    /\ pc = "compose"
    /\ sec < Len(sections)
    /\ \/ /\ pc' = "raised"
          /\ exception' = "writer_agent.generate"
          /\ UNCHANGED <<sec, full_document_content>>
       \/ \E section_content \in texts :
          /\ full_document_content' =
                 "## " \o Upper(sections[sec + 1]) \o "\n\n"
                     \o section_content \o "\n\n" \o full_document_content
          /\ sec' = sec + 1
          /\ pc' = IF sec + 1 = Len(sections) THEN "save" ELSE "compose"
          /\ UNCHANGED exception
    /\ UNCHANGED <<research_vars, source_info_for_prompt, document, export_vars, browse_vars>>
    /\ UNCHANGED <<name_vars, disk_vars, doc_calls, open_sessions>>
    /\ UNCHANGED <<topic_vars, cwd>>

\* lines 263-272 with the loop left after its first section
ComposeWith_OneSection(texts) ==
    /\ pc = "compose"
    /\ sec < Len(sections)
    /\ \/ /\ pc' = "raised"
          /\ exception' = "writer_agent.generate"
          /\ UNCHANGED <<sec, full_document_content>>
       \/ \E section_content \in texts :
          /\ full_document_content' =
                 full_document_content \o "## " \o Upper(sections[sec + 1]) \o "\n\n"
                     \o section_content \o "\n\n"
          /\ sec' = sec + 1
          /\ pc' = "save"
          /\ UNCHANGED exception
    /\ UNCHANGED <<research_vars, source_info_for_prompt, document, export_vars, browse_vars>>
    /\ UNCHANGED <<name_vars, disk_vars, doc_calls, open_sessions>>
    /\ UNCHANGED <<topic_vars, cwd>>

\* lines 263-272: one section, the writer returning one of texts; an
\* exception of the writer is not caught
ComposeWith(texts) ==
    /\ pc = "compose"
    /\ sec < Len(sections)
    /\ \/ /\ pc' = "raised"
          /\ exception' = "writer_agent.generate"
          /\ UNCHANGED <<sec, full_document_content>>
       \/ \E section_content \in texts :
          /\ full_document_content' =
                 full_document_content \o "## " \o Upper(sections[sec + 1]) \o "\n\n"
                     \o section_content \o "\n\n"
          /\ sec' = sec + 1
          /\ pc' = IF sec + 1 = Len(sections) THEN "save" ELSE "compose"
          /\ UNCHANGED exception
    /\ UNCHANGED <<research_vars, source_info_for_prompt, document, export_vars, browse_vars>>
    /\ UNCHANGED <<name_vars, disk_vars, doc_calls, open_sessions>>
    /\ UNCHANGED <<topic_vars, cwd>>

\* lines 263-272: one section
ComposeSection == ComposeWith(WriterTexts)

\* lines 263-272: one section, which the writer may return empty
ComposeSectionAny == ComposeWith(AllWriterTexts)

----------------------------------------------------------------------------
(* create_folder and create_endeavor_document                               *)

\* line 46: safe_folder_path, the directory create_folder creates
create_folder(folder_path) == RemoveChars(folder_path, "?:\"<>|")

\* lines 134 and 280: the name without the characters \ / * ? : " < > |
\* and with an underscore for every space
safe_person_name(person_name) ==
    ReplaceChar(RemoveChars(person_name, "\\/*?:\"<>|"), " ", "_")

FONT_PATH == "DejaVuSans.ttf"
BoldPath == "DejaVuSerif-Bold.ttf"
ItalicPath == "DejaVuSerif-Italic.ttf"
FontFiles == {FONT_PATH, BoldPath, ItalicPath}

\* What FPDF and the filesystem do in a call that found its fonts.
DiskOutcomes == {"ok", "makedirs raises", "output raises"}

\* lines 134-137: the path of the PDF
document_path(folder_path, person_name, now) ==
    path_join(folder_path,
              "proposed_endeavor_" \o safe_person_name(person_name) \o "_"
                  \o strftime(now) \o ".pdf")

FontError == [result |-> "font_error", file_path |-> "", made_dir |-> FALSE, wrote |-> FALSE]

\* lines 133-141: the file is named, the folder made and the PDF written
write_document(folder_path, person_name, now, disk) ==
    [result |-> IF disk = "ok" THEN "saved" ELSE "raised",
     file_path |-> document_path(folder_path, person_name, now),
     made_dir |-> disk # "makedirs raises",
     wrote |-> disk = "ok"]

\* generate_niw.py, lines 101-141, in a directory that holds fonts
create_endeavor_document(folder_path, person_name, now, fonts, disk) ==
    IF FONT_PATH \notin fonts
    THEN FontError
    ELSE write_document(folder_path, person_name, now, disk)

\* agent.py, lines 123-173: add_font raises for a bold or italic font file
\* that is not there
create_endeavor_document_agent(folder_path, person_name, now, fonts, disk) ==
    IF FONT_PATH \notin fonts
    THEN FontError
    ELSE IF BoldPath \notin fonts \/ ItalicPath \notin fonts
    THEN [result |-> "raised", file_path |-> "", made_dir |-> FALSE, wrote |-> FALSE]
    ELSE write_document(folder_path, person_name, now, disk)

\* The record of a call and its effect on the directories and the files.
DocumentCall(version, folder_path, person_name, fonts, r) ==
    /\ doc_calls' = Append(doc_calls,
            [version |-> version, folder_path |-> folder_path, person_name |-> person_name,
             now |-> clock, fonts |-> fonts, result |-> r.result, file_path |-> r.file_path,
             made_dir |-> r.made_dir, wrote |-> r.wrote])
    /\ folders' = IF r.made_dir THEN folders \cup {folder_path} ELSE folders
    /\ files' = IF r.wrote THEN files \cup {r.file_path} ELSE files

----------------------------------------------------------------------------
(* orchestrate_endeavor_creation, steps 5 and 6: saving the files.  At     *)
(* "done" the confirmation of lines 300-302 has been printed.              *)

\* lines 280-282: the main folder; an OSError of os.makedirs is not caught
CreateMainFolder ==
    /\ pc = "save"
    /\ main_folder_path' = path_join(cwd, safe_person_name(applicant_name))
    /\ \/ /\ pc' = "document"
          /\ folders' = folders \cup {create_folder(main_folder_path')}
          /\ UNCHANGED exception
       \/ /\ pc' = "raised"
          /\ exception' = "create_folder"
          /\ UNCHANGED folders
    /\ UNCHANGED <<research_vars, compose_vars, document, export_vars, browse_vars>>
    /\ UNCHANGED <<applicant_name, clock, files, doc_calls, open_sessions>>
    /\ UNCHANGED <<topic_vars, cwd>>

\* lines 285-290 and 101-141: the main document.  A missing font file gives
\* an error message that is printed; an exception of FPDF or of the
\* filesystem is not caught.
SaveDocument ==
    /\ pc = "document"
    /\ \E fonts \in {{}, {FONT_PATH}}, disk \in DiskOutcomes :
        LET r == create_endeavor_document(main_folder_path, applicant_name, clock,
                                          fonts, disk) IN
        /\ DocumentCall("generate_niw", main_folder_path, applicant_name, fonts, r)
        /\ IF r.result = "raised"
           THEN /\ pc' = "raised"
                /\ exception' = "create_endeavor_document"
                /\ UNCHANGED document
           ELSE /\ document' = r.result
                /\ pc' = IF Len(validated_sources) = 0 THEN "done" ELSE "export"
                /\ UNCHANGED exception
    /\ UNCHANGED <<research_vars, compose_vars, export_vars, browse_vars>>
    /\ UNCHANGED <<name_vars, open_sessions>>
    /\ UNCHANGED <<topic_vars, cwd>>

\* lines 293-297 and 61-67: the exhibit's folder, then the call of
\* browse_and_capture_as_pdf up to driver = None
ExportExhibit ==
    /\ pc = "export"
    /\ bpc = "idle"
    /\ exp < Len(validated_sources)
    /\ LET source == validated_sources[exp + 1]
           exhibit_folder_path == path_join(main_folder_path, source.exhibit)
           pdf_path == path_join(exhibit_folder_path, "source_material.pdf")
       IN \/ /\ pc' = "raised"
             /\ exception' = "create_folder"
             /\ UNCHANGED <<archive_requests, browse_vars, folders>>
          \/ /\ folders' = folders \cup {create_folder(exhibit_folder_path)}
             /\ archive_requests' =
                    Append(archive_requests,
                           [url |-> source.url, exhibit |-> source.exhibit,
                            output_filename |-> pdf_path])
             /\ bpc' = "chrome"
             /\ driver' = "None"
             /\ quit_calls' = 0
             /\ ret' = "none"
             /\ UNCHANGED <<pc, exception>>
    /\ UNCHANGED <<research_vars, compose_vars, document, exp>>
    /\ UNCHANGED <<name_vars, files, doc_calls, open_sessions>>
    /\ UNCHANGED <<topic_vars, cwd>>

----------------------------------------------------------------------------
(* browse_and_capture_as_pdf                                                *)

\* The output_filename of the current call.
output_filename == archive_requests[Len(archive_requests)].output_filename

\* A statement of the try block, lines 68-83: it completes and control goes
\* to the next, or it raises and the handler of lines 84-85 makes the error
\* message the value to return; either way the finally block runs last.
TryStatement(at, next) ==
    /\ pc = "export"
    /\ bpc = at
    /\ \/ bpc' = next /\ UNCHANGED ret
       \/ bpc' = "finally" /\ ret' = "error"
    /\ UNCHANGED <<pc, research_vars, compose_vars, document, export_vars, exception>>
    /\ UNCHANGED <<name_vars, doc_calls>>
    /\ UNCHANGED <<topic_vars, cwd>>

\* lines 69-72: driver = webdriver.Chrome(...)
BrowseChrome ==
    /\ pc = "export"
    /\ bpc = "chrome"
    /\ \/ /\ bpc' = "get"
          /\ driver' = "open"
          /\ open_sessions' = open_sessions + 1
          /\ UNCHANGED ret
       \/ /\ bpc' = "finally"
          /\ ret' = "error"
          /\ UNCHANGED <<driver, open_sessions>>
    /\ UNCHANGED <<pc, research_vars, compose_vars, document, export_vars, exception, quit_calls>>
    /\ UNCHANGED <<name_vars, disk_vars, doc_calls>>
    /\ UNCHANGED <<topic_vars, cwd>>

\* line 73: driver.get(url)
BrowseGet ==
    TryStatement("get", "wait") /\ UNCHANGED <<driver, quit_calls, disk_vars, open_sessions>>

\* lines 74-75: driver.implicitly_wait(10) and driver.title
BrowseWait ==
    TryStatement("wait", "print") /\ UNCHANGED <<driver, quit_calls, disk_vars, open_sessions>>

\* lines 76-79: Page.printToPDF and base64.b64decode(result["data"])
BrowsePrint ==
    TryStatement("print", "makedirs")
        /\ UNCHANGED <<driver, quit_calls, disk_vars, open_sessions>>

\* line 80: os.makedirs(os.path.dirname(output_filename), exist_ok=True),
\* which raises for the empty path
BrowseMakedirs ==
    /\ pc = "export"
    /\ bpc = "makedirs"
    /\ \/ /\ dirname(output_filename) # ""
          /\ bpc' = "write"
          /\ folders' = folders \cup {dirname(output_filename)}
          /\ UNCHANGED ret
       \/ /\ bpc' = "finally"
          /\ ret' = "error"
          /\ UNCHANGED folders
    /\ UNCHANGED <<pc, research_vars, compose_vars, document, export_vars, exception>>
    /\ UNCHANGED <<name_vars, doc_calls, driver, quit_calls, files, open_sessions>>
    /\ UNCHANGED <<topic_vars, cwd>>

\* lines 81-83: the file is written and the success message is the value to return
BrowseWrite ==
    /\ pc = "export"
    /\ bpc = "write"
    /\ bpc' = "finally"
    /\ \/ ret' = "success" /\ files' = files \cup {output_filename}
       \/ ret' = "error" /\ UNCHANGED files
    /\ UNCHANGED <<pc, research_vars, compose_vars, document, export_vars, exception,
                   driver, quit_calls>>
    /\ UNCHANGED <<name_vars, doc_calls, folders, open_sessions>>
    /\ UNCHANGED <<topic_vars, cwd>>

\* browse_and_capture_as_pdf with driver.quit() at the end of the try block
\* and no finally block
BrowseFinally_QuitOnSuccessOnly ==
    /\ pc = "export"
    /\ bpc = "finally"
    /\ bpc' = "idle"
    /\ IF driver = "open" /\ ret = "success"
       THEN /\ quit_calls' = quit_calls + 1
            /\ driver' = "quit"
            /\ open_sessions' = open_sessions - 1
       ELSE UNCHANGED <<driver, quit_calls, open_sessions>>
    /\ exp' = exp + 1
    /\ pc' = IF exp + 1 = Len(validated_sources) THEN "done" ELSE "export"
    /\ UNCHANGED <<ret, exception>>
    /\ UNCHANGED <<research_vars, compose_vars, document, archive_requests>>
    /\ UNCHANGED <<name_vars, disk_vars, doc_calls>>
    /\ UNCHANGED <<topic_vars, cwd>>

\* lines 86-88, then 297 and 293: if driver: driver.quit(), the return to the
\* export loop and its next iteration.  An exception of driver.quit()
\* replaces the value to return and leaves the function and, not being
\* caught by the loop, orchestrate_endeavor_creation; the browser it was to
\* close has ended or is still running.
BrowseFinally ==
    /\ pc = "export"
    /\ bpc = "finally"
    /\ bpc' = "idle"
    /\ IF driver = "open"
       THEN /\ quit_calls' = quit_calls + 1
            /\ \/ /\ driver' = "quit"
                  /\ open_sessions' = open_sessions - 1
                  /\ exp' = exp + 1
                  /\ pc' = IF exp + 1 = Len(validated_sources) THEN "done" ELSE "export"
                  /\ UNCHANGED <<ret, exception>>
               \/ /\ driver' = "quit failed"
                  /\ open_sessions' \in {open_sessions - 1, open_sessions}
                  /\ ret' = "none"
                  /\ pc' = "raised"
                  /\ exception' = "driver.quit"
                  /\ UNCHANGED exp
       ELSE /\ exp' = exp + 1
            /\ pc' = IF exp + 1 = Len(validated_sources) THEN "done" ELSE "export"
            /\ UNCHANGED <<driver, quit_calls, ret, exception, open_sessions>>
    /\ UNCHANGED <<research_vars, compose_vars, document, archive_requests>>
    /\ UNCHANGED <<name_vars, disk_vars, doc_calls>>
    /\ UNCHANGED <<topic_vars, cwd>>

Next ==
    \/ Research
    \/ Validate
    \/ BeginCompose
    \/ ComposeSection
    \/ CreateMainFolder
    \/ SaveDocument
    \/ ExportExhibit
    \/ BrowseChrome
    \/ BrowseGet
    \/ BrowseWait
    \/ BrowsePrint
    \/ BrowseMakedirs
    \/ BrowseWrite
    \/ BrowseFinally

Spec == Init /\ [][Next]_vars

----------------------------------------------------------------------------
(* check_link_status on its own: one call on each outcome of requests.head *)

LinkInputs ==
    {Response(c) : c \in MinStatusCode..MaxStatusCode}
        \cup {RequestException(d) : d \in ExceptionDetails}
        \cup {OtherException}

InitLink ==
    /\ pc = "check_link_status"
    /\ responses \in {<<out>> : out \in LinkInputs}
    /\ source_urls = Unset
    /\ i = 0
    /\ status = ""
    /\ validated_sources = <<>>
    /\ research_failed = FALSE
    /\ applicant_name = ""
    /\ NothingSaved
    /\ NoTopic
    /\ cwd = getcwd

\* lines 29-36: the call returns its message or lets the exception through
CallCheckLinkStatus ==
    /\ pc = "check_link_status"
    /\ LET r == check_link_status(responses[1]) IN
        /\ pc' = IF r.raised THEN "link raised" ELSE "link returned"
        /\ status' = r.ret
    /\ UNCHANGED <<source_urls, i, validated_sources, responses, research_failed>>
    /\ UNCHANGED <<compose_vars, document, export_vars, browse_vars, exception>>
    /\ UNCHANGED <<name_vars, disk_vars, doc_calls, open_sessions>>
    /\ UNCHANGED <<topic_vars, cwd>>

NextLink == CallCheckLinkStatus

SpecLink == InitLink /\ [][NextLink]_vars

----------------------------------------------------------------------------
(* The steps after the research stage, for a writer that may return an     *)
(* empty text: the run starts where step 3 ends, every candidate of a list *)
(* of at most two having been probed with status 200 and accepted.         *)

ComposeCandidates == {<<>>, <<"https://a.gov">>, <<"https://a.gov", "https://b.edu">>}

InitCompose ==
    /\ pc = "sections"
    /\ \E items \in ComposeCandidates :
        /\ source_urls = [shape |-> "list", items |-> items]
        /\ i = Len(items)
        /\ responses = [k \in 1..Len(items) |-> Response(200)]
        /\ validated_sources =
               [k \in 1..Len(items) |-> [url |-> items[k], exhibit |-> exhibit_label(k - 1)]]
        /\ status = IF Len(items) = 0 THEN "" ELSE check_link_status(Response(200)).ret
    /\ research_failed = FALSE
    /\ applicant_name = "Jane Doe"
    /\ NothingSaved
    /\ TopicSelected
    /\ cwd \in WorkingDirs

NextCompose ==
    \/ BeginCompose
    \/ ComposeSectionAny
    \/ CreateMainFolder
    \/ SaveDocument
    \/ ExportExhibit
    \/ BrowseChrome
    \/ BrowseGet
    \/ BrowseWait
    \/ BrowsePrint
    \/ BrowseMakedirs
    \/ BrowseWrite
    \/ BrowseFinally

SpecCompose == InitCompose /\ [][NextCompose]_vars

----------------------------------------------------------------------------
(* create_endeavor_document on its own: up to MaxDocCalls calls of either  *)
(* definition while the clock goes from 0 to MaxClock.                     *)

DocFolders == {"out/Jane_Doe"}

InitDoc ==
    /\ pc = "create_endeavor_document"
    /\ source_urls = Unset
    /\ i = 0
    /\ status = ""
    /\ validated_sources = <<>>
    /\ responses = <<>>
    /\ research_failed = FALSE
    /\ applicant_name = ""
    /\ NothingSaved
    /\ NoTopic
    /\ cwd = getcwd

\* The font files the directory holds: all, all but one, none.
FontSets == {FontFiles, {}} \cup {FontFiles \ {f} : f \in FontFiles}

\* The inputs of a call: with the fonts in place, each name and each outcome
\* of the filesystem; with a font file missing, a working filesystem.
DocInputs ==
    {[fonts |-> FontFiles, disk |-> d, person_name |-> n] :
        d \in DiskOutcomes, n \in PersonNames}
    \cup {[fonts |-> fs, disk |-> "ok", person_name |-> "Jane Doe"] : fs \in FontSets}

\* One call of a definition of create_endeavor_document; an exception ends
\* the call and leaves the caller free to call again.
CallDocument(version, in, folder_path) ==
    LET r == IF version = "agent"
             THEN create_endeavor_document_agent(folder_path, in.person_name, clock,
                                                 in.fonts, in.disk)
             ELSE create_endeavor_document(folder_path, in.person_name, clock,
                                           in.fonts, in.disk)
    IN /\ pc = "create_endeavor_document"
       /\ Len(doc_calls) < MaxDocCalls
       /\ DocumentCall(version, folder_path, in.person_name, in.fonts, r)
       /\ document' = r.result
       /\ UNCHANGED <<pc, research_vars, compose_vars, export_vars, browse_vars, exception>>
       /\ UNCHANGED <<name_vars, open_sessions>>
       /\ UNCHANGED <<topic_vars, cwd>>

\* generate_niw.py, lines 101-141
CallCreateDocument ==
    \E in \in DocInputs, folder_path \in DocFolders :
        CallDocument("generate_niw", in, folder_path)

\* agent.py, lines 123-173
CallCreateDocumentAgent ==
    \E in \in DocInputs, folder_path \in DocFolders :
        CallDocument("agent", in, folder_path)

\* A second passes.
Tick ==
    /\ pc = "create_endeavor_document"
    /\ clock < MaxClock
    /\ clock' = clock + 1
    /\ UNCHANGED <<pc, research_vars, compose_vars, document, export_vars, browse_vars,
                   exception, applicant_name, main_folder_path, disk_vars, doc_calls,
                   open_sessions, topic_vars, cwd>>

NextDoc == CallCreateDocument \/ CallCreateDocumentAgent \/ Tick

SpecDoc == InitDoc /\ [][NextDoc]_vars

----------------------------------------------------------------------------
(* The validation loop on long candidate lists whose links all answer 200. *)

InitLabel ==
    /\ pc = "validate"
    /\ \E n \in 1..MaxLongCands :
        source_urls = [shape |-> "list", items |-> [k \in 1..n |-> "https://a.gov"]]
    /\ i = 0
    /\ status = ""
    /\ validated_sources = <<>>
    /\ responses = <<>>
    /\ research_failed = FALSE
    /\ applicant_name = "Jane Doe"
    /\ NothingSaved
    /\ TopicSelected
    /\ cwd = getcwd

\* lines 236-243 for a server that answers 200
ValidateHealthy == ValidateStep({200}, {"response"})

NextLabel == ValidateHealthy

SpecLabel == InitLabel /\ [][NextLabel]_vars

----------------------------------------------------------------------------
(* orchestrate_endeavor_creation, steps 1 and 2: the analysis of the CV    *)
(* and the choice of a topic.                                              *)

DIGITS == "0123456789"

IsDigit(c) == \E d \in 1..Len(DIGITS) : CharAt(DIGITS, d) = c

DigitValue(c) == CHOOSE d \in 0..9 : CharAt(DIGITS, d + 1) = c

RECURSIVE Strip(_)
\* str.strip() of blanks
Strip(s) ==
    IF Len(s) = 0 THEN s
    ELSE IF CharAt(s, 1) = " " THEN Strip(SubSeq(s, 2, Len(s)))
    ELSE IF CharAt(s, Len(s)) = " " THEN Strip(SubSeq(s, 1, Len(s) - 1))
    ELSE s

RECURSIVE DigitsValue(_, _)
\* The number a string of decimal digits writes, after the digits read so far.
DigitsValue(s, acc) ==
    IF Len(s) = 0 THEN acc
    ELSE DigitsValue(SubSeq(s, 2, Len(s)), acc * 10 + DigitValue(CharAt(s, 1)))

\* int(text): blanks around the number and a sign are accepted; anything
\* else than decimal digits raises ValueError.
int(text) ==
    LET t == Strip(text)
        signed == Len(t) > 0 /\ CharAt(t, 1) \in {"-", "+"}
        body == IF signed THEN SubSeq(t, 2, Len(t)) ELSE t
        ok == Len(body) > 0 /\ \A k \in 1..Len(body) : IsDigit(CharAt(body, k))
    IN [ok |-> ok,
        value |-> IF ~ok THEN 0
                  ELSE IF signed /\ CharAt(t, 1) = "-" THEN 0 - DigitsValue(body, 0)
                  ELSE DigitsValue(body, 0)]

\* The lines a user types at the prompt.
EntryTexts == {"abc", "", " 2 ", "-1", "0", "2.0"} \cup {ToString(n) : n \in 1..MaxTopics + 1}

TopicLists == UNION {[1..n -> TopicNames] : n \in 0..MaxTopics}

Analysis(kind, keys, full_name, topic_list, topics_is_list) ==
    [kind |-> kind, keys |-> keys, full_name |-> full_name, topics |-> topic_list,
     topics_is_list |-> topics_is_list]

\* What cv_analyzer_agent.generate followed by json.loads can give: generate
\* raises, the text is no JSON, the JSON is no object, or it is an object
\* with or without the keys full_name and topics, topics a list or null.
AnalyzerOutputs ==
    {Analysis(k, {}, "", <<>>, TRUE) : k \in {"raise", "notjson", "list", "scalar"}}
    \cup {Analysis("object", keys, "Jane Doe", <<"Clean energy">>, TRUE) :
            keys \in {{}, {"full_name"}, {"topics"}}}
    \cup {Analysis("object", {"full_name", "topics"}, "Jane Doe", <<>>, FALSE)}
    \cup {Analysis("object", {"full_name", "topics"}, n, t, TRUE) :
            n \in PersonNames, t \in TopicLists}

\* lines 198-207 with analysis_data.get(key, default) for the two keys
Analyze_GetWithDefault ==
    /\ pc = "analyze"
    /\ \E a \in AnalyzerOutputs :
        /\ analysis_data' = a
        /\ IF a.kind = "object"
           THEN /\ applicant_name' = IF "full_name" \in a.keys THEN a.full_name ELSE ""
                /\ topics' = IF "topics" \in a.keys THEN a.topics ELSE <<>>
                /\ pc' = "select"
           ELSE /\ pc' = "returned"
                /\ UNCHANGED <<applicant_name, topics>>
    /\ chosen_index' = -1
    /\ UNCHANGED <<research_vars, compose_vars, document, export_vars, browse_vars>>
    /\ UNCHANGED <<main_folder_path, clock, disk_vars, doc_calls, open_sessions>>
    /\ UNCHANGED <<exception, entry, chosen_topic, cwd>>

\* lines 198-214: a JSONDecodeError or a KeyError ends the run with a
\* message; any other exception is not caught.
Analyze ==
    /\ pc = "analyze"
    /\ \E a \in AnalyzerOutputs :
        /\ analysis_data' = a
        /\ IF a.kind = "raise"
           THEN /\ pc' = "raised"
                /\ exception' = "cv_analyzer_agent.generate"
                /\ UNCHANGED <<applicant_name, topics>>
           ELSE IF a.kind = "notjson"
           THEN /\ pc' = "returned"
                /\ UNCHANGED <<exception, applicant_name, topics>>
           ELSE IF a.kind # "object"
           THEN /\ pc' = "raised"
                /\ exception' = "analysis_data['full_name']"
                /\ UNCHANGED <<applicant_name, topics>>
           ELSE IF "full_name" \notin a.keys
           THEN /\ pc' = "returned"
                /\ UNCHANGED <<exception, applicant_name, topics>>
           ELSE IF "topics" \notin a.keys
           THEN /\ pc' = "returned"
                /\ applicant_name' = a.full_name
                /\ UNCHANGED <<exception, topics>>
           ELSE /\ applicant_name' = a.full_name
                /\ topics' = a.topics
                /\ IF a.topics_is_list
                   THEN pc' = "select" /\ UNCHANGED exception
                   ELSE pc' = "raised" /\ exception' = "enumerate(topics)"
    /\ chosen_index' = -1
    /\ UNCHANGED <<research_vars, compose_vars, document, export_vars, browse_vars>>
    /\ UNCHANGED <<main_folder_path, clock, disk_vars, doc_calls, open_sessions>>
    /\ UNCHANGED <<entry, chosen_topic, cwd>>

\* lines 215-216 with the index taken to be the number entered
SelectTopic_NoOffset ==
    /\ pc = "select"
    /\ \/ /\ pc' = "raised"
          /\ exception' = "input"
          /\ UNCHANGED <<entry, chosen_index, chosen_topic>>
       \/ \E text \in EntryTexts :
          LET choice == int(text) IN
          /\ entry' = <<text>>
          /\ chosen_index' =
                 IF choice.ok /\ 1 <= choice.value /\ choice.value <= Len(topics)
                 THEN choice.value
                 ELSE chosen_index
          /\ IF chosen_index' < 0 \/ chosen_index' >= Len(topics)
             THEN UNCHANGED <<pc, chosen_topic>>
             ELSE /\ chosen_topic' = topics[chosen_index' + 1]
                  /\ pc' = "research"
          /\ UNCHANGED exception
    /\ UNCHANGED <<research_vars, compose_vars, document, export_vars, browse_vars>>
    /\ UNCHANGED <<name_vars, disk_vars, doc_calls, open_sessions>>
    /\ UNCHANGED <<analysis_data, topics, cwd>>

\* lines 215-225: one pass of the selection loop, and the topic when the
\* loop is left.  An EOFError of input() is not caught.
SelectTopic ==
    /\ pc = "select"
    /\ \/ /\ pc' = "raised"
          /\ exception' = "input"
          /\ UNCHANGED <<entry, chosen_index, chosen_topic>>
       \/ \E text \in EntryTexts :
          LET choice == int(text) IN
          /\ entry' = <<text>>
          /\ chosen_index' =
                 IF choice.ok /\ 1 <= choice.value /\ choice.value <= Len(topics)
                 THEN choice.value - 1
                 ELSE chosen_index
          /\ IF chosen_index' < 0 \/ chosen_index' >= Len(topics)
             THEN UNCHANGED <<pc, chosen_topic>>
             ELSE /\ chosen_topic' = topics[chosen_index' + 1]
                  /\ pc' = "research"
          /\ UNCHANGED exception
    /\ UNCHANGED <<research_vars, compose_vars, document, export_vars, browse_vars>>
    /\ UNCHANGED <<name_vars, disk_vars, doc_calls, open_sessions>>
    /\ UNCHANGED <<analysis_data, topics, cwd>>

InitTopic ==
    /\ pc = "analyze"
    /\ source_urls = Unset
    /\ i = 0
    /\ status = ""
    /\ validated_sources = <<>>
    /\ responses = <<>>
    /\ research_failed = FALSE
    /\ applicant_name = ""
    /\ NothingSaved
    /\ NoTopic
    /\ cwd = getcwd

NextTopic == Analyze \/ SelectTopic \/ Research

SpecTopic == InitTopic /\ [][NextTopic]_vars

----------------------------------------------------------------------------
(* browse_and_capture_as_pdf on its own: one call for each output path,    *)
(* the parent directory of the path being there already or not.            *)

\* The paths to save to: in a directory two levels down, in a directory of
\* the working directory, and in the working directory itself.
BrowsePaths == {"output/John_Doe/exhibit1B/source.pdf", "exhibits/source.pdf", "source.pdf"}

InitBrowse ==
    /\ pc = "export"
    /\ source_urls = Unset
    /\ i = 0
    /\ status = ""
    /\ responses = <<>>
    /\ research_failed = FALSE
    /\ \E url \in URLS, path \in BrowsePaths :
        /\ validated_sources = <<[url |-> url, exhibit |-> exhibit_label(0)]>>
        /\ archive_requests = <<[url |-> url, exhibit |-> exhibit_label(0),
                                 output_filename |-> path]>>
        /\ folders \in {{}, {dirname(path)} \ {""}}
    /\ exp = 0
    /\ bpc = "chrome"
    /\ driver = "None"
    /\ quit_calls = 0
    /\ ret = "none"
    /\ source_info_for_prompt = ""
    /\ sec = 0
    /\ full_document_content = ""
    /\ document = "none"
    /\ exception = "none"
    /\ applicant_name = ""
    /\ main_folder_path = ""
    /\ clock = 0
    /\ files = {}
    /\ doc_calls = <<>>
    /\ open_sessions = 0
    /\ NoTopic
    /\ cwd = getcwd

NextBrowse ==
    \/ BrowseChrome
    \/ BrowseGet
    \/ BrowseWait
    \/ BrowsePrint
    \/ BrowseMakedirs
    \/ BrowseWrite
    \/ BrowseFinally

SpecBrowse == InitBrowse /\ [][NextBrowse]_vars

----------------------------------------------------------------------------
(* The claims.                                                             *)

\* The specification's classification of a probe: Valid is a response with
\* a status code under 400.
ValidOutcome(out) == out.kind = "response" /\ out.status_code < 400

\* The research stage is over.
ResearchOver == pc \notin {"research", "validate", "check_link_status",
                           "link returned", "link raised",
                           "analyze", "select", "returned"}

\* The k-th smallest element of a set of positions.
Nth(S, k) == CHOOSE x \in S : Cardinality({y \in S : y < x}) = k - 1

\* The exhibit list holds, in order, the candidates at the positions S.
PickedFrom(S) ==
    /\ Cardinality(S) = Len(validated_sources)
    /\ \A k \in 1..Len(validated_sources) :
          validated_sources[k].url = source_urls.items[Nth(S, k)]

\* The positions probed so far whose outcome was Valid.
ValidPositions == {j \in 1..Len(responses) : ValidOutcome(responses[j])}

\* The label of the k-th accepted source, k counted from 0: 1B, 1C, 1D, ...
SequentialLabel(k) == "Exhibit 1" \o CharAt("BCDEFGHIJKLMNOPQRSTUVWXYZ", k + 1)

\* The reference result: keep the Valid candidates in order, then label them
\* by their position in the kept sequence.
ReferenceExhibits ==
    [k \in 1..Cardinality(ValidPositions) |->
        [url |-> source_urls.items[Nth(ValidPositions, k)],
         exhibit |-> SequentialLabel(k - 1)]]

\* C1: the k-th accepted source (counted from 0 among the accepted ones only)
\* carries the label 1 followed by the k-th letter from B, so that a rejected
\* candidate before an accepted one skips no letter.
C1_LabelsCountAcceptedOnly ==
    \A k \in 1..Len(validated_sources) :
        validated_sources[k].exhibit = SequentialLabel(k - 1)

\* C2: every entry of the exhibit list is a candidate whose probe outcome was
\* Valid; a Broken or Error candidate is never in the list.
C2_OnlyValidLabeled ==
    \E S \in SUBSET ValidPositions : PickedFrom(S)

\* C3: when every candidate has been classified Valid, Broken or Error, the
\* exhibit list is the reference result.
C3_EqualsReference ==
    (ResearchOver /\ ~research_failed) => validated_sources = ReferenceExhibits

\* C4: when the research stage completes without an exception, every Valid
\* candidate is in the exhibit list exactly once and the exhibits are in the
\* order of their URLs in the candidate list.
C4_ValidKeptInOrder ==
    (ResearchOver /\ ~research_failed) =>
        \E S \in SUBSET (1..Len(source_urls.items)) :
            ValidPositions \subseteq S /\ PickedFrom(S)

\* C4 witness: three candidates probed Valid, Broken, Valid and the first
\* and the third kept.
C4_Witness ==
    /\ pc = "sections"
    /\ ~research_failed
    /\ Len(source_urls.items) = 3
    /\ ValidPositions = {1, 3}
    /\ responses[2] = Response(404)
    /\ Len(validated_sources) = 2
    /\ validated_sources[1].url = source_urls.items[1]
    /\ validated_sources[2].url = source_urls.items[3]
    /\ source_urls.items[1] # source_urls.items[3]

\* C5: a failure of the check for one candidate never stops the validation:
\* once the research stage is over every candidate has been probed.
C5_LaterCandidatesStillValidated ==
    (ResearchOver /\ Iterable(source_urls.shape)) =>
        Len(responses) = Len(source_urls.items)

\* C6: a researcher output that is no JSON list leaves the exhibit list
\* empty and nothing is archived.
C6_MalformedOutputGivesNoSources ==
    source_urls.shape \in {"raise", "notjson", "scalar", "object", "string"} =>
        validated_sources = <<>> /\ archive_requests = <<>>

\* The string s begins with prefix.
StartsWith(s, prefix) ==
    Len(s) >= Len(prefix) /\ SubSeq(s, 1, Len(prefix)) = prefix

IsValidResult(s) == StartsWith(s, "Link is valid.")
IsBrokenResult(s) == StartsWith(s, "Link is broken.")
IsErrorResult(s) == StartsWith(s, "Error checking link:")

\* C7: check_link_status gives the Valid result for a status code under 400,
\* the Broken result for a code of 400 or more and the Error result for a
\* request exception; exactly one of the three holds of a result, and the
\* definitions of agent.py and generate_niw.py return the same string.
C7_ClassifiesByStatus ==
    pc = "link returned" =>
        LET out == responses[1] IN
        /\ (out.kind = "response" /\ out.status_code < 400) => IsValidResult(status)
        /\ (out.kind = "response" /\ out.status_code >= 400) => IsBrokenResult(status)
        /\ out.kind = "RequestException" => IsErrorResult(status)
        /\ Cardinality({p \in {"valid", "broken", "error"} :
                \/ p = "valid" /\ IsValidResult(status)
                \/ p = "broken" /\ IsBrokenResult(status)
                \/ p = "error" /\ IsErrorResult(status)}) = 1
        /\ check_link_status_agent(out) = Returned(status)

\* C7 witness: a redirect status 301 has been classified Valid.
C7_Witness ==
    /\ pc = "link returned"
    /\ responses[1] = Response(301)
    /\ status = "Link is valid. Status code: 301"

\* C8: check_link_status never lets an exception through to its caller.
C8_NeverRaises == pc # "link raised"

\* C9: in a call of browse_and_capture_as_pdf that created the driver,
\* driver.quit() has been called exactly once when the call is over, also
\* when the call reports a failure; it is never called twice.
C9_SessionReleased ==
    /\ quit_calls <= 1
    /\ bpc = "idle" =>
          /\ driver # "open"
          /\ driver # "None" => quit_calls = 1

\* C9 witness: a call that created the driver, failed and returned its
\* error message after one call of driver.quit().
C9_Witness ==
    /\ bpc = "idle"
    /\ ret = "error"
    /\ driver = "quit"
    /\ quit_calls = 1

\* C10: no failure of browse_and_capture_as_pdf, a failure of closing the
\* session included, leaves the function as an exception.
C10_NeverPropagates == exception # "driver.quit"

\* C11: two calls of create_endeavor_document for the same person name and
\* the same folder that each wrote a PDF wrote to different paths, also when
\* both read the clock within one second.
C11_SecondPathDiffers ==
    \A j, k \in 1..Len(doc_calls) :
        ( /\ j < k
          /\ doc_calls[j].wrote /\ doc_calls[k].wrote
          /\ doc_calls[j].person_name = doc_calls[k].person_name
          /\ doc_calls[j].folder_path = doc_calls[k].folder_path )
        => doc_calls[j].file_path # doc_calls[k].file_path

\* The writer returned an empty text for a section: its heading is followed
\* by the blank lines that end the section.
EmptySection == Contains(full_document_content, "\n\n\n\n")

WriterFailed == exception = "writer_agent.generate" \/ EmptySection

ExhibitFolders ==
    {create_folder(path_join(main_folder_path, validated_sources[k].exhibit)) :
        k \in 1..Len(validated_sources)}

\* C12: when writer_agent.generate raised or returned an empty text for a
\* section, no main document is written, no exhibit folder is created, no
\* page is archived and the final confirmation is not printed.
C12_WriterFailureIsFatal ==
    WriterFailed =>
        /\ files = {}
        /\ \A k \in 1..Len(doc_calls) : ~doc_calls[k].wrote
        /\ folders \cap ExhibitFolders = {}
        /\ archive_requests = <<>>
        /\ pc # "done"

\* C13: when create_endeavor_document failed, by its font file missing or by
\* an error of the filesystem, the run does not print the final confirmation.
C13_AssemblyFailureEndsRun ==
    (\E k \in 1..Len(doc_calls) : doc_calls[k].result # "saved") => pc # "done"

\* The font files a definition of create_endeavor_document registers.
RegisteredFonts(version) == IF version = "agent" THEN FontFiles ELSE {FONT_PATH}

\* C14: a call of create_endeavor_document that finds a font file it
\* registers missing returns the error message, makes no directory and
\* writes no PDF.
C14_FailsFastOnMissingFont ==
    \A k \in 1..Len(doc_calls) :
        ~(RegisteredFonts(doc_calls[k].version) \subseteq doc_calls[k].fonts)
        => /\ doc_calls[k].result = "font_error"
           /\ ~doc_calls[k].made_dir
           /\ ~doc_calls[k].wrote

\* Every candidate has been probed, or the research stage was left through
\* its exception handler or with nothing to probe.
ValidationFinished ==
    /\ source_urls # Unset
    /\ \/ ~Iterable(source_urls.shape)
       \/ research_failed
       \/ i = Len(source_urls.items)

\* C15: the stages follow one another.  A section is composed only when the
\* validation loop is over, create_endeavor_document is called only when
\* every section is composed, an exhibit is archived only when
\* create_endeavor_document has returned, and a call of
\* browse_and_capture_as_pdf starts only when the one before it is over.
C15_StagesInOrder ==
    /\ (pc = "compose" \/ sec > 0 \/ full_document_content # "") => ValidationFinished
    /\ pc \in {"research", "validate"} =>
          sec = 0 /\ doc_calls = <<>> /\ archive_requests = <<>> /\ bpc = "idle"
    /\ (doc_calls # <<>> \/ document # "none") => sec = Len(sections)
    /\ pc = "compose" => doc_calls = <<>> /\ archive_requests = <<>> /\ bpc = "idle"
    /\ archive_requests # <<>> =>
          /\ Len(doc_calls) = 1
          /\ document \in {"saved", "font_error"}
    /\ Len(archive_requests) - exp \in {0, 1}
    /\ bpc # "idle" => pc = "export" /\ Len(archive_requests) = exp + 1
    /\ (bpc = "idle" /\ Len(archive_requests) = exp + 1) => exception = "driver.quit"

\* C15 witness: a run through all the stages that validated three
\* candidates, composed the six sections, saved the document and archived
\* two exhibits.
C15_Witness ==
    /\ pc = "done"
    /\ i = 3
    /\ sec = Len(sections)
    /\ document = "saved"
    /\ exp = 2
    /\ Len(archive_requests) = 2

\* C16: at most one browser session is open at any time, none is open when
\* a call of browse_and_capture_as_pdf starts, and none is open when
\* orchestrate_endeavor_creation has ended.
C16_OneSessionAtATime ==
    /\ open_sessions <= 1
    /\ bpc = "chrome" => open_sessions = 0
    /\ pc \in {"done", "raised"} => open_sessions = 0

\* C17: no two exhibits of the list carry the same label, and so no two
\* share an export folder: every exhibit exported so far has a folder of
\* its own beside the main folder.
C17_LabelsDistinct ==
    /\ \A j, k \in 1..Len(validated_sources) :
          j # k => validated_sources[j].exhibit # validated_sources[k].exhibit
    /\ archive_requests # <<>> => Cardinality(folders) = 1 + Len(archive_requests)

\* C17 witness: a finished run with three exhibits.
C17_Witness ==
    /\ pc = "done"
    /\ Len(validated_sources) = 3
    /\ exp = 3

\* The labels 1B .. 1Z as the code writes them.
LettersBToZ == {CharAt(UPPERCASE, c) : c \in 2..Len(UPPERCASE)}

\* C18: every label of the exhibit list is 1 followed by one letter of B..Z,
\* however long the candidate list.
C18_LabelLetterInRange ==
    \A k \in 1..Len(validated_sources) :
        \E letter \in LettersBToZ :
            validated_sources[k].exhibit = "Exhibit 1" \o letter

\* The label 1X of an exhibit, without the word Exhibit.
LabelCode(exhibit) == SubSeq(exhibit, Len("Exhibit ") + 1, Len(exhibit))

\* C19: the export stage takes the exhibits once each and in order: for the
\* exhibit labelled L it makes the folder <main folder>/exhibit<L> and asks
\* for one archive of the exhibit's URL at
\* <main folder>/exhibit<L>/source_material.pdf; the paths of two exhibits
\* differ and nothing is asked for a candidate that is no exhibit.
C19_ExportPerExhibit ==
    /\ Len(archive_requests) <= Len(validated_sources)
    /\ pc = "done" => Len(archive_requests) = Len(validated_sources)
    /\ \A k \in 1..Len(archive_requests) :
        LET folder == path_join(main_folder_path,
                                "exhibit" \o LabelCode(validated_sources[k].exhibit))
        IN /\ archive_requests[k].url = validated_sources[k].url
           /\ archive_requests[k].exhibit = validated_sources[k].exhibit
           /\ folder \in folders
           /\ archive_requests[k].output_filename = path_join(folder, "source_material.pdf")
    /\ \A j, k \in 1..Len(archive_requests) :
        j # k => archive_requests[j].output_filename # archive_requests[k].output_filename

\* The headings of the six sections as they stand in the document.
Headings == <<"## INTRODUCTION AND OVERVIEW\n\n", "## SUBSTANTIAL MERIT\n\n",
              "## NATIONAL IMPORTANCE\n\n", "## PHASED IMPLEMENTATION PLAN\n\n",
              "## PROJECTED ECONOMIC IMPACT AND JOB CREATION\n\n",
              "## BROADER IMPACTS AND CONCLUSION\n\n">>

\* C20: the sections are composed once each and in the order of the list:
\* a step either leaves full_document_content as it is or composes the next
\* section of the list and puts its heading and its text after what the
\* body held, which it leaves unchanged.
C20_AppendOnly ==
    [][ \/ /\ sec' = sec
           /\ full_document_content' = full_document_content
        \/ /\ sec' = sec + 1
           /\ sec' <= Len(Headings)
           /\ \E text \in AllWriterTexts :
                full_document_content' =
                    full_document_content \o Headings[sec'] \o text \o "\n\n" ]_vars

\* C20 witness: the six sections composed, the second of them empty.
C20_Witness ==
    /\ pc = "done"
    /\ sec = Len(sections)
    /\ full_document_content =
           Headings[1] \o "text\n\n" \o Headings[2] \o "\n\n" \o Headings[3] \o "text\n\n"
               \o Headings[4] \o "text\n\n" \o Headings[5] \o "text\n\n"
               \o Headings[6] \o "text\n\n"

\* The topic stage is over and a topic is in use.
TopicInUse == pc \in {"research", "validate", "sections"}

\* C25: the selection loop is left only with an index of the topic list, the
\* topic in use is the topic at the position of the number entered less one,
\* and an entry that is no number of the list leaves the selection as it
\* was, at the prompt.
C25_SelectionInRange ==
    /\ pc = "select" =>
          /\ chosen_index = -1
          /\ chosen_topic = ""
          /\ entry # <<>> =>
                ~(int(entry[1]).ok /\ int(entry[1]).value \in 1..Len(topics))
    /\ TopicInUse =>
          /\ chosen_index \in 0..(Len(topics) - 1)
          /\ entry # <<>> /\ int(entry[1]).ok /\ chosen_index = int(entry[1]).value - 1
          /\ chosen_topic = analysis_data.topics[chosen_index + 1]
          /\ \E k \in 1..Len(analysis_data.topics) : chosen_topic = analysis_data.topics[k]

\* C25 witness: the entry of 2 between blanks chose the second of two topics.
C25_Witness ==
    /\ pc = "research"
    /\ topics = <<"Clean energy", "Food safety">>
    /\ entry = <<" 2 ">>
    /\ chosen_index = 1
    /\ chosen_topic = "Food safety"

\* C26: at the prompt of a run whose analysis gave a name and a topic list,
\* there is a number whose entry takes the run out of the selection loop.
C26_SelectionCanEnd ==
    pc = "select" =>
        \E text \in EntryTexts :
            /\ int(text).ok
            /\ ENABLED (SelectTopic /\ entry' = <<text>> /\ pc' # "select")

\* The analysis failed as C28 says: no JSON, or an object without a key.
AnalysisUnusable ==
    \/ analysis_data.kind = "notjson"
    \/ /\ analysis_data.kind = "object"
       /\ ~({"full_name", "topics"} \subseteq analysis_data.keys)

\* C28: when the analyzer's response is no JSON or lacks full_name or
\* topics, the run is over: no prompt was shown, the researcher and the
\* writer were not called and no folder or file was made.
C28_UnusableAnalysisEndsRun ==
    AnalysisUnusable =>
        /\ pc = "returned"
        /\ entry = <<>>
        /\ chosen_topic = ""
        /\ source_urls = Unset
        /\ sec = 0 /\ full_document_content = ""
        /\ folders = {} /\ files = {}

\* C28 witness: the response was an object with a name and no topics.
C28_Witness ==
    /\ pc = "returned"
    /\ analysis_data.kind = "object"
    /\ analysis_data.keys = {"full_name"}

\* C21: the researcher's output, once there, is never replaced; a probe is
\* always of the next candidate, never of one probed before; and the exhibit
\* list never holds more entries than the one research call gave candidates.
C21_NoRetryNoSubstitute ==
    [][ /\ source_urls # Unset => source_urls' = source_urls
        /\ Len(responses') \in {Len(responses), Len(responses) + 1}
        /\ Len(responses') = Len(responses) + 1 =>
              /\ Len(responses) = i
              /\ i < Len(source_urls.items)
        /\ i' \in {i, i + 1}
        /\ Len(validated_sources') <= Len(source_urls'.items) ]_vars

\* C21 witness: a finished run of three candidates, probed once each, two
\* of them rejected and none replaced.
C21_Witness ==
    /\ pc = "done"
    /\ Len(source_urls.items) = 3
    /\ Len(responses) = 3
    /\ Len(validated_sources) = 1

\* The outcome of a probe is one the pipeline accepts: a status below 400,
\* or a request exception (see C2).
AcceptedOutcome(out) ==
    \/ out.kind = "response" /\ out.status_code < 400
    \/ out.kind = "RequestException"

\* The positions with a finished probe and an accepted outcome.
AcceptedPositions == {j \in 1..i : AcceptedOutcome(responses[j])}

\* C23: the exhibit list is a function of the researcher's output and of
\* the outcome of each probe: the candidates with an accepted outcome, in
\* order, each labelled by its position in the candidate list.
C23_ExhibitsDetermined ==
    pc \notin {"research"} =>
        validated_sources =
            [k \in 1..Cardinality(AcceptedPositions) |->
                [url |-> source_urls.items[Nth(AcceptedPositions, k)],
                 exhibit |-> SequentialLabel(Nth(AcceptedPositions, k) - 1)]]

\* C23 witness: a finished run whose probes ended 200, request exception
\* and 404.
C23_Witness ==
    /\ pc = "done"
    /\ Len(responses) = 3
    /\ responses[1] = Response(200)
    /\ responses[2].kind = "RequestException"
    /\ responses[3] = Response(404)
    /\ Len(validated_sources) = 2

\* C24: after the research stage the source lines of the prompts are the
\* lines of the exhibit list as it is now, and the k-th archive is of the
\* k-th exhibit of the list as it is now.
C24_ExhibitsUnchanged ==
    pc \in {"compose", "save", "document", "export", "done", "raised"} =>
        /\ source_info_for_prompt =
               JoinLines([k \in 1..Len(validated_sources) |->
                            validated_sources[k].exhibit \o ": "
                                \o validated_sources[k].url])
        /\ Len(archive_requests) <= Len(validated_sources)
        /\ \A k \in 1..Len(archive_requests) :
              /\ archive_requests[k].url = validated_sources[k].url
              /\ archive_requests[k].exhibit = validated_sources[k].exhibit

\* C24 witness: a finished run that archived its two exhibits, the second
\* of three candidates having been rejected.
C24_Witness ==
    /\ pc = "done"
    /\ Len(source_urls.items) = 3
    /\ Len(responses) = 3
    /\ responses[2] = Response(404)
    /\ Len(archive_requests) = 2
    /\ source_info_for_prompt # ""

\* C27: when an exception ended the research stage, the exhibit list that
\* composition and export use is empty.
C27_InterruptedResearchGivesNoSources ==
    (research_failed /\ pc \notin {"research", "validate"}) => validated_sources = <<>>

\* The export loop has been entered.
ExportBegan == doc_calls # <<>> /\ document \in {"saved", "font_error"}

\* C29: when the run is over, every exhibit after one whose folder or
\* archive failed has had its archive attempted, and the main document that
\* was written is still there.
C29_ExportFailureIsolated ==
    (pc \in {"done", "raised"} /\ ExportBegan) =>
        /\ \A k \in 1..Len(validated_sources) :
              k > exp + 1 =>
                  \E r \in 1..Len(archive_requests) :
                      archive_requests[r].exhibit = validated_sources[k].exhibit
        /\ doc_calls[1].wrote => doc_calls[1].file_path \in files

\* C22: in a call of browse_and_capture_as_pdf whose navigation and capture
\* have succeeded, the parent directory can be made and the file written
\* whatever the path is, and a call that reports success has written the
\* file at output_filename.
C22_SuccessPathWrites ==
    /\ bpc = "makedirs" => ENABLED (BrowseMakedirs /\ bpc' = "write")
    /\ bpc = "write" => ENABLED (BrowseWrite /\ ret' = "success")
    /\ ret = "success" => output_filename \in files

\* The directories create_folder has made for the main folder and for the
\* exhibits exported so far.
CreateFolderDirs ==
    {create_folder(main_folder_path)}
        \cup {create_folder(dirname(archive_requests[k].output_filename)) :
                k \in 1..Len(archive_requests)}

\* C30: every directory of the run is one create_folder made, and every
\* file is written into such a directory.
C30_WritesWhereCreated ==
    /\ folders \subseteq CreateFolderDirs
    /\ \A f \in files : dirname(f) \in CreateFolderDirs

====
